---- MODULE Spec2Model ----
(***************************************************************************)
(* Registration delivery pipeline of the webinar landing-page backend:     *)
(* the intake endpoint register_webinar, the delivery record store         *)
(* (collection webinar_registrants with its unique index), the tenant      *)
(* resolver get_client_config, the broadcast synchronisation that maintains*)
(* the upcoming-broadcast collection, the activity gate                    *)
(* is_broadcast_still_active and the retry sweep retry_failed_webhooks.    *)
(*                                                                         *)
(* Every await of the source is a step of its own where another task can   *)
(* run in between; an outbound HTTP call is a send step and a receive step.*)
(***************************************************************************)
EXTENDS Integers, Sequences, FiniteSets, TLC

(***************************************************************************)
(* Bounds of the model.                                                    *)
(***************************************************************************)
\* number of executions of the sweep per sweep task
MaxSweeps == 2
\* ticks of one minute the clock may make besides jumps to a due retry time
MaxNow == 1
\* configuration changes by the administration
MaxAdmin == 1
\* store outages
MaxOutages == 1
\* broadcast synchronisation runs
MaxSyncs == 1
\* broadcasts the platform ends or cancels
MaxCloses == 1

(***************************************************************************)
(* Program constants.                                                      *)
(***************************************************************************)
\* retry_google_sheets_webhook: "Respect max attempts (cap at 5)"
RetryCap == 5
\* to_list(100) of the sweep's queries
ToListLimit == 100
\* is_broadcast_still_active: 24 hours of buffer after the broadcast date, in minutes
GraceMinutes == 1440

(***************************************************************************)
(* Values.  A Python value that can be None, an int or a str is a record   *)
(* [t, v]; a string is coded by an integer: n >= 1 is the decimal string   *)
(* of n, 0 is "", -1 is "not_available", -2 is "None".                     *)
(***************************************************************************)
NoneV == [t |-> "none", v |-> 0]
IntV(n) == [t |-> "int", v |-> n]
StrV(n) == [t |-> "str", v |-> n]
EmptyStr == 0
NotAvailable == 0 - 1
NoneStr == 0 - 2

\* Python's str()
PyStr(x) == IF x.t = "int" THEN StrV(x.v) ELSE IF x.t = "none" THEN StrV(NoneStr) ELSE x
\* Python's truth value
Truthy(x) == (x.t = "int" /\ x.v # 0) \/ (x.t = "str" /\ x.v # EmptyStr)
\* Python's "a or b"
PyOr(a, b) == IF Truthy(a) THEN a ELSE b

Tenants == {"t1", "t2"}
\* tenant keys a submission can carry: the registered ones, an unknown one, an empty one
TenantKeys == Tenants \cup {"tx", ""}
Emails == {"a"}
BroadcastNums == {1}
Channels == {"wg", "ghl", "gs"}

\* the order in which a find() returns the documents of a collection keyed by client
TenantOrder == <<"t1", "t2">>

(***************************************************************************)
(* State.                                                                  *)
(***************************************************************************)
VARIABLES
    clients,      \* collection clients: tenant -> configuration document
    upcoming,     \* collection upcoming-broadcast: tenant -> broadcast_id (NoneV: null document, absent: "absent")
    broadcasts,   \* collection broadcasts: tenant -> broadcast number -> record or "absent"
    platform,     \* the platform's own broadcasts: tenant -> number -> [has_ended, cancelled, date]
    store,        \* collection webinar_registrants: sequence of documents, _id = index
    dbUp,         \* whether the store answers
    now,          \* the clock, in minutes
    intk,         \* intake requests: request -> local state of register_webinar
    gsTask,       \* request -> state of send_google_sheets_webhook_immediate
    ghlTask,      \* request -> state of send_ghl_webhook_background
    sw,           \* sweep tasks: task -> local state of retry_failed_webhooks
    sync,         \* state of sync_client_webinars per tenant
    log,          \* what the last step did, for the properties
    budget        \* what is left of the bounds, and whether the history is kept

vars == <<clients, upcoming, broadcasts, platform, store, dbUp, now, intk, gsTask,
          ghlTask, sw, sync, log, budget>>

(***************************************************************************)
(* Tenant resolver.                                                        *)
(***************************************************************************)
NoConfig == [ok |-> FALSE, client_id |-> "", key |-> FALSE, ghl |-> FALSE, gs |-> FALSE]

\* a query on the status alone: the first active client, whatever the key
FindFirstActiveClient(cid) ==
    LET act == {k \in 1..Len(TenantOrder) : clients[TenantOrder[k]].status = "active"} IN
    IF cid \notin Tenants \/ act = {} THEN ""
    ELSE TenantOrder[CHOOSE k \in act : \A j \in act : k <= j]

\* the query without its status filter
FindAnyClient(cid) == IF cid \in Tenants THEN cid ELSE ""

\* the document of collection clients the query {client_id, status: "active"} finds
FindActiveClient(cid) ==
    IF cid \in Tenants /\ clients[cid].status = "active" THEN cid ELSE ""

\* a resolver that answers for a key without an active client with a configuration of
\* defaults
FallbackConfig(cid) ==
    IF cid = "" \/ ~dbUp THEN NoConfig
    ELSE LET c == FindActiveClient(cid) IN
         IF c = "" THEN [ok |-> TRUE, client_id |-> cid, key |-> FALSE, ghl |-> FALSE,
                         gs |-> TRUE]
         ELSE [ok |-> TRUE, client_id |-> c, key |-> clients[c].key,
               ghl |-> clients[c].ghl, gs |-> clients[c].gs]

\* get_client_config: None for an empty key, for no active client and on a store error
GetClientConfig(cid) ==
    IF cid = "" THEN NoConfig
    ELSE IF ~dbUp THEN NoConfig
    ELSE LET c == FindActiveClient(cid) IN
         IF c = "" THEN NoConfig
         ELSE [ok |-> TRUE, client_id |-> c, key |-> clients[c].key,
               ghl |-> clients[c].ghl, gs |-> clients[c].gs]

(***************************************************************************)
(* Delivery record store: collection webinar_registrants.                  *)
(***************************************************************************)
\* a field that is missing from a document reads as NoneV, 0 or FALSE; wasFinal,
\* ghlFails and ghlFailedAt are no fields of the document and no step reads them:
\* wasFinal records that the spreadsheet channel was once marked exhausted, ghlFails and
\* ghlFailedAt the number of failed CRM retries and the time of the last one, in the
\* specifications that keep that history (budget.history)
NewDoc(reg) ==
    [client_id |-> reg.client_id, email |-> reg.email,
     bcast |-> IF reg.hasB THEN reg.bcast ELSE NoneV,
     wgId |-> reg.wgId, watchLink |-> reg.watchLink, confLink |-> reg.confLink,
     already |-> reg.hasAlready,
     wgSent |-> reg.wgSent, ghlSent |-> FALSE, gsSent |-> FALSE,
     gsInProg |-> FALSE, gsRetry |-> 0, gsNext |-> 0, gsFinal |-> FALSE,
     wasFinal |-> FALSE, ghlFails |-> 0, ghlFailedAt |-> 0]

\* {"$set": registration_data}: every key of registration_data replaces the stored
\* one; "status" is one key, so the whole stored status block is replaced
SetDoc(d, reg) ==
    [d EXCEPT !.client_id = reg.client_id, !.email = reg.email,
              !.bcast = IF reg.hasB THEN reg.bcast ELSE @,
              !.wgId = reg.wgId, !.watchLink = reg.watchLink, !.confLink = reg.confLink,
              !.already = IF reg.hasAlready THEN TRUE ELSE @,
              !.wgSent = reg.wgSent, !.ghlSent = FALSE, !.gsSent = FALSE,
              !.gsInProg = FALSE, !.gsRetry = 0, !.gsNext = 0, !.gsFinal = FALSE]

\* key of the unique index (client_id, email, broadcastId); a missing field is null
IndexKey(d) == <<d.client_id, d.email, d.bcast>>

\* whether the unique index lets document d be stored under _id i (0: a new one)
UniqueOK(i, d) == \A j \in 1..Len(store) : j # i => IndexKey(store[j]) # IndexKey(d)

\* a broadcast id that is valid as soon as it is truthy
ValidBroadcastTruthy(b) == Truthy(b)

\* str(broadcast_id) not in ["None", "not_available", ""], with broadcast_id truthy
ValidBroadcast(b) == Truthy(b) /\ PyStr(b).v \notin {NoneStr, NotAvailable, EmptyStr}

\* the filter of the intake's find_one: a match on the type and the value of broadcastId,
\* or, without a broadcast id, a document with no or with a void broadcastId
MatchesLookup(d, cid, email, b) ==
    /\ d.client_id = cid
    /\ d.email = email
    /\ IF ValidBroadcast(b) THEN d.bcast = PyStr(b)
       ELSE d.bcast \in {NoneV, StrV(NoneStr), StrV(NotAvailable), StrV(EmptyStr)}

\* find_one: the first matching document's _id, 0 for None
FindOne(cid, email, b) ==
    LET hits == {i \in 1..Len(store) : MatchesLookup(store[i], cid, email, b)} IN
    IF hits = {} THEN 0 ELSE CHOOSE i \in hits : \A j \in hits : i <= j

\* the identity of a registration: tenant, email and broadcast number (0: unknown)
BroadcastNum(b) == IF ValidBroadcast(b) THEN b.v ELSE 0
IdentOf(d) == <<d.client_id, d.email, BroadcastNum(d.bcast)>>

\* no channel of document d has resolved
Unresolved(d) == ~d.wgSent /\ ~d.ghlSent /\ ~d.gsSent /\ ~d.gsFinal

(***************************************************************************)
(* What a step did: the task (who, n), the await it completed (ch, ev), the *)
(* document, and the channel of the outbound request it then sent, if any. *)
(***************************************************************************)
Event(who, n, ch, ev, doc, sent) ==
    [who |-> who, n |-> n, ch |-> ch, ev |-> ev, doc |-> doc, sent |-> sent]
NoEvent == Event("none", 0, "", "", 0, "")

(***************************************************************************)
(* Intake: register_webinar.  The request is suspended at one await at a    *)
(* time (pc); a step completes that await and runs to the next one.        *)
(***************************************************************************)
\* the intake requests: two, to have them race on one registration
Reqs == {1, 2}

\* broadcast ids a submission can carry: registration_data.get("broadcastId") or
\* registration_data.get("webinarId")
SubmittedBroadcasts ==
    {IntV(n) : n \in BroadcastNums} \cup {StrV(n) : n \in BroadcastNums}
      \cup {NoneV, StrV(EmptyStr), StrV(NotAvailable)}

NoResp == [code |-> 0, status |-> "", watchLink |-> 0, persisted |-> FALSE]

\* registration_data after normalisation, with the status flags initialised
InitReg(cid, email, b) ==
    [client_id |-> cid, email |-> email,
     hasB |-> ValidBroadcast(b),
     bcast |-> IF ValidBroadcast(b) THEN PyStr(b) ELSE NoneV,
     wgId |-> 0, watchLink |-> 0, confLink |-> 0, hasAlready |-> FALSE,
     wgSent |-> FALSE, err |-> FALSE, hasId |-> FALSE]

\* early is no variable of register_webinar: it records that, when the request was
\* taken up, no stored registration of its identity had a channel resolved
IdleIntake ==
    [pc |-> "idle", cid |-> "", email |-> "", b |-> NoneV, cfg |-> NoConfig,
     reg |-> InitReg("", "", NoneV), existing |-> 0, doc_id |-> 0,
     db_available |-> TRUE, wg_success |-> FALSE, already_registered |-> FALSE,
     resp |-> NoResp, early |-> FALSE]

\* "Build response"
Response(me) ==
    IF ~me.db_available
    THEN [code |-> 200, status |-> IF me.wg_success THEN "registered" ELSE "pending",
          watchLink |-> me.reg.watchLink, persisted |-> FALSE]
    ELSE IF me.reg.watchLink # 0
    THEN [code |-> 200, status |-> "registered", watchLink |-> me.reg.watchLink,
          persisted |-> TRUE]
    ELSE [code |-> 200, status |-> IF me.reg.hasAlready THEN "registered" ELSE "pending",
          watchLink |-> 0, persisted |-> TRUE]

\* the background CRM task: skipped without a URL; with the _id that insert_one left
\* in registration_data the payload cannot be encoded and nothing is sent
GHLTaskStart(me) ==
    IF ~me.cfg.ghl THEN "skipped" ELSE IF me.reg.hasId THEN "error" ELSE "inflight"

\* the end of the request: the CRM task is created and the response is built
Finished(me) == [me EXCEPT !.pc = "done", !.resp = Response(me)]

\* "Update DB with WebinarGeek response" is awaited when the platform channel
\* succeeded or the registration existed, and the document id is known
WantsUpdate(me) == (me.wg_success \/ me.reg.hasAlready) /\ me.doc_id # 0

\* "if wg_success": the platform channel is marked sent in registration_data
MarkSent(me) == IF me.wg_success THEN [me EXCEPT !.reg.wgSent = TRUE] ELSE me

AfterPlatform(me) ==
    IF WantsUpdate(me) THEN [MarkSent(me) EXCEPT !.pc = "wgupd"] ELSE Finished(MarkSent(me))

\* the platform channel is dispatched with an API key and a valid broadcast id only
PlatformConfigured(me) == me.cfg.key /\ ValidBroadcast(me.b)

BeforePlatform(me) ==
    IF PlatformConfigured(me) THEN [me EXCEPT !.pc = "wg_wait"] ELSE AfterPlatform(me)

\* the channel of the request a step of the intake sent, from the await it reached
\* ("sub": the lookup of the existing subscription, which is no dispatch)
IntakeSent(me) ==
    IF me.pc = "wg_wait" THEN "wg"
    ELSE IF me.pc = "sub_wait" THEN "sub"
    ELSE IF me.pc = "done" /\ GHLTaskStart(me) = "inflight" THEN "ghl" ELSE ""

\* the CRM task after a step of request r that leaves it as me
GHLAfter(r, me) ==
    IF me.pc = "done" THEN [ghlTask EXCEPT ![r] = GHLTaskStart(me)] ELSE ghlTask

\* an intake that creates no spreadsheet task when it takes the request up
IntakeStartNoSheet(r, cid, email, b) ==
    /\ intk[r].pc = "idle"
    /\ LET cfg == GetClientConfig(cid) IN
       IF ~cfg.ok
       THEN /\ intk' = [intk EXCEPT ![r] = [@ EXCEPT !.pc = "done", !.cid = cid,
                            !.email = email, !.b = b, !.resp = [NoResp EXCEPT !.code = 400]]]
            /\ log' = Event("intake", r, "", "reject", 0, "")
       ELSE /\ intk' = [intk EXCEPT ![r] = [@ EXCEPT !.pc = "lookup", !.cid = cid,
                            !.email = email, !.b = b, !.cfg = cfg,
                            !.reg = InitReg(cid, email, b)]]
            /\ log' = Event("intake", r, "", "accept", 0, "")
    /\ UNCHANGED <<clients, upcoming, broadcasts, platform, store, dbUp, now, gsTask,
                   ghlTask, sw, sync, budget>>

\* STEP 0 and the normalisation, up to the creation of the spreadsheet task: an
\* unresolved tenant is rejected with status 400 before anything else is done
IntakeStart(r, cid, email, b) ==
    /\ intk[r].pc = "idle"
    /\ LET cfg == GetClientConfig(cid) IN
       IF ~cfg.ok
       THEN /\ intk' = [intk EXCEPT ![r] = [@ EXCEPT !.pc = "done", !.cid = cid,
                            !.email = email, !.b = b, !.resp = [NoResp EXCEPT !.code = 400]]]
            /\ log' = Event("intake", r, "", "reject", 0, "")
            /\ UNCHANGED gsTask
       ELSE /\ intk' = [intk EXCEPT ![r] = [@ EXCEPT !.pc = "lookup", !.cid = cid,
                            !.email = email, !.b = b, !.cfg = cfg,
                            !.reg = InitReg(cid, email, b),
                            !.early = \A i \in 1..Len(store) :
                                         IdentOf(store[i]) = <<cid, email, BroadcastNum(b)>>
                                           => Unresolved(store[i])]]
            /\ gsTask' = [gsTask EXCEPT ![r] = IF cfg.gs THEN "inflight" ELSE "skipped"]
            /\ log' = Event("intake", r, "", "accept", 0, IF cfg.gs THEN "gs" ELSE "")
    /\ UNCHANGED <<clients, upcoming, broadcasts, platform, store, dbUp, now, ghlTask,
                   sw, sync, budget>>

\* "Preserve existing WebinarGeek data"
Preserve(reg, d) ==
    [reg EXCEPT !.watchLink = IF d.watchLink # 0 THEN d.watchLink ELSE @,
                !.confLink = IF d.confLink # 0 THEN d.confLink ELSE @,
                !.wgId = IF d.wgId # 0 THEN d.wgId ELSE @,
                !.hasAlready = TRUE]

\* the find_one for an existing registration of this client, email and broadcast;
\* when it fails the write is skipped
IntakeLookup(r) ==
    /\ intk[r].pc = "lookup"
    /\ LET me == intk[r]
           found == FindOne(me.cid, me.email, me.b)
           nxt == IF ~dbUp
                  THEN BeforePlatform([me EXCEPT !.db_available = FALSE, !.existing = 0])
                  ELSE [me EXCEPT !.pc = "write", !.existing = found,
                           !.reg = IF found # 0 THEN Preserve(me.reg, store[found]) ELSE @] IN
       /\ intk' = [intk EXCEPT ![r] = nxt]
       /\ ghlTask' = GHLAfter(r, nxt)
       /\ log' = Event("intake", r, "", "lookup", 0, IntakeSent(nxt))
    /\ UNCHANGED <<clients, upcoming, broadcasts, platform, store, dbUp, now, gsTask,
                   sw, sync, budget>>

\* "Perform DB write": update_one of the existing document or insert_one; insert_one
\* puts the new _id into registration_data before it talks to the server
IntakeWrite(r) ==
    /\ intk[r].pc = "write"
    /\ LET me == intk[r]
           merged == me.existing # 0 /\ dbUp
                       /\ UniqueOK(me.existing, SetDoc(store[me.existing], me.reg))
           inserted == me.existing = 0 /\ dbUp /\ UniqueOK(0, NewDoc(me.reg))
           wrote == IF merged THEN [me EXCEPT !.doc_id = me.existing]
                    ELSE IF inserted THEN [me EXCEPT !.doc_id = Len(store) + 1, !.reg.hasId = TRUE]
                    ELSE IF me.existing # 0 THEN [me EXCEPT !.db_available = FALSE]
                    ELSE [me EXCEPT !.db_available = FALSE, !.reg.hasId = TRUE]
           nxt == BeforePlatform(wrote) IN
       /\ store' = IF merged THEN [store EXCEPT ![me.existing] = SetDoc(@, me.reg)]
                   ELSE IF inserted THEN Append(store, NewDoc(me.reg))
                   ELSE store
       /\ intk' = [intk EXCEPT ![r] = nxt]
       /\ ghlTask' = GHLAfter(r, nxt)
       /\ log' = Event("intake", r, "",
                       IF merged THEN "merge" ELSE IF inserted THEN "insert" ELSE "writefail",
                       wrote.doc_id, IntakeSent(nxt))
    /\ UNCHANGED <<clients, upcoming, broadcasts, platform, dbUp, now, gsTask, sw, sync,
                   budget>>

\* answers of the platform to POST /broadcasts/{id}/subscriptions: 201 with a body
\* (with or without links, with or without the broadcast object), 422 with or without
\* a duplicate message, another status, or no answer at all (status 0: timeout,
\* connection error)
WGResponses ==
    {[status |-> 201, watch |-> w, hasB |-> h, dup |-> FALSE] : w \in {0, 1}, h \in BOOLEAN}
    \cup {[status |-> 422, watch |-> 0, hasB |-> FALSE, dup |-> TRUE]}
    \cup {[status |-> st, watch |-> 0, hasB |-> FALSE, dup |-> FALSE] : st \in {422, 500, 0}}

\* what fetch_existing_broadcast_subscription gives: None (no success, an exception, no
\* subscription of this email), a subscription with its links, or one without them
SubResponses == {"none", "full", "empty"}

\* registration_data after the platform's answer; the broadcast object of a 201 body
\* carries the broadcast's id as the platform serves it
AfterWG(reg, b, res) ==
    IF res.status = 201
    THEN [reg EXCEPT !.wgId = 1, !.watchLink = res.watch, !.confLink = res.watch,
                     !.hasB = IF res.hasB THEN TRUE ELSE @,
                     !.bcast = IF res.hasB THEN platform[reg.client_id].id ELSE @]
    ELSE IF res.status = 422 /\ res.dup
    THEN [reg EXCEPT !.hasAlready = TRUE]
    ELSE IF res.status = 0
    THEN [reg EXCEPT !.err = TRUE, !.wgSent = FALSE]
    ELSE reg

\* a success on 201 alone
WGCreatedOnly(res) == res.status = 201

\* wg_success of the intake
WGSuccess(res) == res.status = 201 \/ (res.status = 422 /\ res.dup)

\* registration_data after the lookup of the existing subscription: a subscription that
\* was found replaces the id and the links
AfterSub(reg, sub) ==
    IF sub = "none" THEN reg
    ELSE LET x == IF sub = "full" THEN 1 ELSE 0 IN
         [reg EXCEPT !.wgId = x, !.watchLink = x, !.confLink = x]

\* the platform's answer; after a duplicate 422 the existing subscription is looked up
IntakeWGRecv(r, res) ==
    /\ intk[r].pc = "wg_wait"
    /\ LET me == intk[r]
           got == [me EXCEPT !.reg = AfterWG(me.reg, me.b, res),
                             !.wg_success = WGSuccess(res),
                             !.already_registered = res.status = 422 /\ res.dup]
           nxt == IF res.status = 422 /\ res.dup THEN [got EXCEPT !.pc = "sub_wait"]
                  ELSE AfterPlatform(got) IN
       /\ intk' = [intk EXCEPT ![r] = nxt]
       /\ ghlTask' = GHLAfter(r, nxt)
       /\ log' = Event("intake", r, "wg", IF WGSuccess(res) THEN "ok" ELSE "fail",
                       me.doc_id, IntakeSent(nxt))
    /\ UNCHANGED <<clients, upcoming, broadcasts, platform, store, dbUp, now, gsTask,
                   sw, sync, budget>>

\* the answer of the lookup of the existing subscription
IntakeSubRecv(r, sub) ==
    /\ intk[r].pc = "sub_wait"
    /\ LET me == intk[r]
           nxt == AfterPlatform([me EXCEPT !.reg = AfterSub(me.reg, sub)]) IN
       /\ intk' = [intk EXCEPT ![r] = nxt]
       /\ ghlTask' = GHLAfter(r, nxt)
       /\ log' = Event("intake", r, "sub", IF sub = "none" THEN "notfound" ELSE "found",
                       me.doc_id, IntakeSent(nxt))
    /\ UNCHANGED <<clients, upcoming, broadcasts, platform, store, dbUp, now, gsTask,
                   sw, sync, budget>>

\* "Update DB with WebinarGeek response": {"$set": registration_data} once more
IntakeWGUpdate(r) ==
    /\ intk[r].pc = "wgupd"
    /\ LET me == intk[r]
           done == dbUp /\ UniqueOK(me.doc_id, SetDoc(store[me.doc_id], me.reg))
           nxt == Finished(me) IN
       /\ store' = IF done THEN [store EXCEPT ![me.doc_id] = SetDoc(@, me.reg)] ELSE store
       /\ intk' = [intk EXCEPT ![r] = nxt]
       /\ ghlTask' = GHLAfter(r, nxt)
       /\ log' = Event("intake", r, "", IF done THEN "update" ELSE "updatefail",
                       me.doc_id, IntakeSent(nxt))
    /\ UNCHANGED <<clients, upcoming, broadcasts, platform, dbUp, now, gsTask, sw, sync,
                   budget>>

\* answers of the spreadsheet webhook: the HTTP status class and the body
GSResponses ==
    {[ok2xx |-> TRUE, body |-> x] : x \in {"nonjson", "ok", "skipped", "okfalse", "nook", "list"}}
    \cup {[ok2xx |-> FALSE, body |-> "nonjson"], [ok2xx |-> FALSE, body |-> "timeout"]}

\* send_google_sheets_webhook_immediate: every 2xx answer whose body parses counts
IntakeSheetSuccess(res) == res.ok2xx /\ res.body # "list"

\* the spreadsheet task's answer: a success is recorded if the document id is known
IntakeGSRecv(r, res) ==
    /\ gsTask[r] = "inflight"
    /\ gsTask' = [gsTask EXCEPT ![r] = "done"]
    /\ LET id == intk[r].doc_id IN
       /\ IF IntakeSheetSuccess(res) /\ id # 0 /\ dbUp
          THEN store' = [store EXCEPT ![id] = [@ EXCEPT !.gsSent = TRUE, !.gsInProg = FALSE]]
          ELSE UNCHANGED store
       /\ log' = Event("intake", r, "gs", IF IntakeSheetSuccess(res) THEN "ok" ELSE "fail",
                       id, "")
    /\ UNCHANGED <<clients, upcoming, broadcasts, platform, dbUp, now, intk, ghlTask, sw,
                   sync, budget>>

\* send_ghl_webhook_background: a 2xx answer is recorded if the document id is known
IntakeGHLRecv(r, ok) ==
    /\ ghlTask[r] = "inflight"
    /\ ghlTask' = [ghlTask EXCEPT ![r] = "done"]
    /\ LET id == intk[r].doc_id IN
       /\ IF ok /\ id # 0 /\ dbUp
          THEN store' = [store EXCEPT ![id] = [@ EXCEPT !.ghlSent = TRUE]]
          ELSE UNCHANGED store
       /\ log' = Event("intake", r, "ghl", IF ok THEN "ok" ELSE "fail", id, "")
    /\ UNCHANGED <<clients, upcoming, broadcasts, platform, dbUp, now, intk, gsTask, sw,
                   sync, budget>>

(***************************************************************************)
(* Retry sweep: retry_failed_webhooks.  Task 0 is the scheduler's job, the *)
(* others are background tasks of run_retry_webhooks_now.                  *)
(***************************************************************************)
Sweepers == {0, 1}

\* budget.sweeps of a scheduler that fires the job for ever
Unbounded == 0 - 1

NoDoc == NewDoc(InitReg("", "", NoneV))
NoSnap == [id |-> 0, d |-> NoDoc]
NoMap == [t \in Tenants |-> NoneV]

IdleSweep ==
    [pc |-> "idle", map |-> NoMap, tq |-> <<>>, queue |-> <<>>, cur |-> NoSnap,
     cfg |-> NoConfig, runs |-> 0]

\* client_broadcast_map: client_id -> str(broadcast_id) of the upcoming-broadcast
\* documents whose broadcast_id is not null
BroadcastMap == [t \in Tenants |-> IF Truthy(upcoming[t]) THEN PyStr(upcoming[t]) ELSE NoneV]

\* the sequence of the elements of sequence q that satisfy Keep
RECURSIVE SelectSeqOf(_, _)
SelectSeqOf(q, keep) ==
    IF q = <<>> THEN <<>>
    ELSE IF Head(q) \in keep THEN <<Head(q)>> \o SelectSeqOf(Tail(q), keep)
    ELSE SelectSeqOf(Tail(q), keep)

\* a selection by client and unsent channel alone
SelectedAnyBroadcast(d, cid, bid) ==
    /\ d.client_id = cid
    /\ (~d.wgSent \/ ~d.ghlSent \/ ~d.gsSent)

\* the sweep's selection: documents of the client and of its upcoming broadcast (a
\* match on type and value of broadcastId) with some channel not sent
Selected(d, cid, bid) ==
    /\ d.client_id = cid
    /\ d.bcast = bid
    /\ (~d.wgSent \/ ~d.ghlSent \/ ~d.gsSent)

RECURSIVE Snapshots(_, _, _)
Snapshots(i, cid, bid) ==
    IF i > Len(store) THEN <<>>
    ELSE IF Selected(store[i], cid, bid)
         THEN <<[id |-> i, d |-> store[i]]>> \o Snapshots(i + 1, cid, bid)
         ELSE Snapshots(i + 1, cid, bid)

\* find(...).to_list(100)
Batch(cid, bid) ==
    LET all == Snapshots(1, cid, bid) IN
    IF Len(all) <= ToListLimit THEN all ELSE SubSeq(all, 1, ToListLimit)

\* the end of one execution of the sweep; the executions are counted when they are bounded
SweepDone(me) == [IdleSweep EXCEPT !.runs = IF budget.sweeps = Unbounded THEN 0 ELSE me.runs + 1]

\* the loop over failed_registrations: the next await is get_client_config for the
\* head of the queue, or the sweep ends
NextRegistration(me) ==
    IF me.queue = <<>> THEN SweepDone(me)
    ELSE [me EXCEPT !.pc = "resolve", !.cur = NoSnap, !.cfg = NoConfig]

\* "Retry Google Sheets if needed (with backoff)": deferred while nextRetryAt is in the
\* future; then retry_google_sheets_webhook awaits the exhausted write or the claim
SheetsStage(me) ==
    IF ~me.cur.d.gsSent /\ me.cfg.gs
    THEN IF me.cur.d.gsNext # 0 /\ now < me.cur.d.gsNext
         THEN NextRegistration(me)
         ELSE IF me.cur.d.gsRetry >= RetryCap THEN [me EXCEPT !.pc = "gs_exh"]
         ELSE [me EXCEPT !.pc = "gs_claim"]
    ELSE NextRegistration(me)

\* a CRM retry for every registration whose CRM channel is unsent
CrmStageAnyTenant(me) ==
    IF ~me.cur.d.ghlSent THEN [me EXCEPT !.pc = "ghl_wait"] ELSE SheetsStage(me)

\* "Retry GHL if needed"
CrmStage(me) ==
    IF ~me.cur.d.ghlSent /\ me.cfg.ghl THEN [me EXCEPT !.pc = "ghl_wait"]
    ELSE SheetsStage(me)

\* "Retry WebinarGeek if needed"
PlatformStage(me) ==
    IF ~me.cur.d.wgSent /\ me.cfg.key /\ me.cur.d.wgId = 0 /\ Truthy(me.cur.d.bcast)
    THEN [me EXCEPT !.pc = "wg_wait"]
    ELSE CrmStage(me)

\* the channel of the request a step of the sweep sent, from the await it reached
SweepSent(me) ==
    IF me.pc = "wg_wait" THEN "wg" ELSE IF me.pc = "ghl_wait" THEN "ghl"
    ELSE IF me.pc = "gs_wait" THEN "gs" ELSE ""

\* the job starts: the find on upcoming-broadcast; a store error ends the job
SweepStart(s) ==
    /\ sw[s].pc = "idle"
    /\ budget.sweeps = Unbounded \/ sw[s].runs < budget.sweeps
    /\ LET me == sw[s]
           map == BroadcastMap
           tq == SelectSeqOf(TenantOrder, {t \in Tenants : map[t] # NoneV})
           nxt == IF ~dbUp \/ \A t \in Tenants : upcoming[t] = NoneV THEN SweepDone(me)
                  ELSE IF tq = <<>> THEN NextRegistration([me EXCEPT !.map = map])
                  ELSE [me EXCEPT !.pc = "query", !.map = map, !.tq = tq] IN
       /\ sw' = [sw EXCEPT ![s] = nxt]
       /\ log' = Event("sweep", s, "", "start", 0, "")
    /\ UNCHANGED <<clients, upcoming, broadcasts, platform, store, dbUp, now, intk,
                   gsTask, ghlTask, sync, budget>>

\* the find on webinar_registrants for the next client of the map
SweepQuery(s) ==
    /\ sw[s].pc = "query"
    /\ LET me == sw[s]
           cid == Head(me.tq)
           got == [me EXCEPT !.tq = Tail(me.tq),
                             !.queue = me.queue \o Batch(cid, me.map[cid])]
           nxt == IF ~dbUp THEN SweepDone(me)
                  ELSE IF got.tq = <<>> THEN NextRegistration(got)
                  ELSE got IN
       /\ sw' = [sw EXCEPT ![s] = nxt]
       /\ log' = Event("sweep", s, "", "query", 0, "")
    /\ UNCHANGED <<clients, upcoming, broadcasts, platform, store, dbUp, now, intk,
                   gsTask, ghlTask, sync, budget>>

\* get_client_config for the registration at the head of the queue; a registration of
\* another broadcast than the map's, or of no active client, is skipped
SweepResolve(s) ==
    /\ sw[s].pc = "resolve"
    /\ LET me == sw[s]
           snap == Head(me.queue)
           cfg == GetClientConfig(snap.d.client_id)
           took == [me EXCEPT !.queue = Tail(me.queue), !.cur = snap, !.cfg = cfg]
           nxt == IF me.map[snap.d.client_id] = NoneV
                       \/ PyStr(snap.d.bcast) # me.map[snap.d.client_id]
                       \/ ~cfg.ok
                  THEN NextRegistration(took)
                  ELSE PlatformStage(took) IN
       /\ sw' = [sw EXCEPT ![s] = nxt]
       /\ log' = Event("sweep", s, "", IF cfg.ok THEN "resolve" ELSE "noclient",
                       snap.id, SweepSent(nxt))
    /\ UNCHANGED <<clients, upcoming, broadcasts, platform, store, dbUp, now, intk,
                   gsTask, ghlTask, sync, budget>>

\* the platform's answer to the retried subscription: 201 stores the subscription, every
\* 422 marks the channel sent, anything else leaves the document as it is
SweepWGRecv(s, res) ==
    /\ sw[s].pc = "wg_wait"
    /\ LET me == sw[s]
           id == me.cur.id
           nxt == CrmStage(me) IN
       /\ store' = IF res.status = 201 /\ dbUp
                   THEN [store EXCEPT ![id] = [@ EXCEPT !.wgId = 1, !.watchLink = res.watch,
                                                        !.confLink = res.watch, !.wgSent = TRUE]]
                   ELSE IF res.status = 422 /\ dbUp
                   THEN [store EXCEPT ![id] = [@ EXCEPT !.wgSent = TRUE, !.already = TRUE]]
                   ELSE store
       /\ sw' = [sw EXCEPT ![s] = nxt]
       /\ log' = Event("sweep", s, "wg", IF res.status \in {201, 422} THEN "ok" ELSE "fail",
                       id, SweepSent(nxt))
    /\ UNCHANGED <<clients, upcoming, broadcasts, platform, dbUp, now, intk, gsTask,
                   ghlTask, sync, budget>>

\* the history of a failed CRM retry; the code writes nothing
NoteCrmFailure(d) ==
    IF budget.history THEN [d EXCEPT !.ghlFails = @ + 1, !.ghlFailedAt = now] ELSE d

\* the CRM webhook's answer: a 2xx answer marks the channel sent
SweepGHLRecv(s, ok) ==
    /\ sw[s].pc = "ghl_wait"
    /\ LET me == sw[s]
           id == me.cur.id
           nxt == SheetsStage(me) IN
       /\ store' = IF ok /\ dbUp THEN [store EXCEPT ![id] = [@ EXCEPT !.ghlSent = TRUE]]
                   ELSE IF ~ok THEN [store EXCEPT ![id] = NoteCrmFailure(@)]
                   ELSE store
       /\ sw' = [sw EXCEPT ![s] = nxt]
       /\ log' = Event("sweep", s, "ghl", IF ok THEN "ok" ELSE "fail", id, SweepSent(nxt))
    /\ UNCHANGED <<clients, upcoming, broadcasts, platform, dbUp, now, intk, gsTask,
                   ghlTask, sync, budget>>

\* backoff_minutes = {0: 1, 1: 2, 2: 5, 3: 10}.get(retry_count, 30)
BackoffMinutes(retry_count) ==
    IF retry_count = 0 THEN 1 ELSE IF retry_count = 1 THEN 2
    ELSE IF retry_count = 2 THEN 5 ELSE IF retry_count = 3 THEN 10 ELSE 30

\* the write that resets the in-progress flag with backoff; retry_count is the one of
\* the registration as the sweep read it
RecordFailure(d, retry_count) ==
    [d EXCEPT !.gsInProg = FALSE, !.gsRetry = retry_count + 1,
              !.gsNext = now + BackoffMinutes(retry_count)]

\* the write after a successful retry
RecordSuccess(d, retry_count) ==
    [d EXCEPT !.gsSent = TRUE, !.gsInProg = FALSE, !.gsRetry = retry_count, !.gsNext = 0]

\* retry_count >= 5: the channel is marked exhausted and nothing is sent
SweepGSExhausted(s) ==
    /\ sw[s].pc = "gs_exh"
    /\ LET me == sw[s]
           id == me.cur.id
           nxt == IF dbUp THEN NextRegistration(me) ELSE [me EXCEPT !.pc = "gs_exc"] IN
       /\ store' = IF dbUp
                   THEN [store EXCEPT ![id] = [@ EXCEPT !.gsInProg = FALSE, !.gsFinal = TRUE,
                                                        !.wasFinal = TRUE]]
                   ELSE store
       /\ sw' = [sw EXCEPT ![s] = nxt]
       /\ log' = Event("sweep", s, "gs", "exhausted", id, "")
    /\ UNCHANGED <<clients, upcoming, broadcasts, platform, dbUp, now, intk, gsTask,
                   ghlTask, sync, budget>>

\* the filter of the claim's find_one_and_update
ClaimFilter(d) == ~d.gsSent

\* "Atomic check-and-set": find_one_and_update sets the in-progress flag of a document
\* that passes the filter; the request is sent when a document is returned
SweepGSClaim(s) ==
    /\ sw[s].pc = "gs_claim"
    /\ LET me == sw[s]
           id == me.cur.id
           claimed == dbUp /\ ClaimFilter(store[id])
           nxt == IF ~dbUp THEN [me EXCEPT !.pc = "gs_exc"]
                  ELSE IF claimed THEN [me EXCEPT !.pc = "gs_wait"]
                  ELSE NextRegistration(me) IN
       /\ store' = IF claimed THEN [store EXCEPT ![id] = [@ EXCEPT !.gsInProg = TRUE]]
                   ELSE store
       /\ sw' = [sw EXCEPT ![s] = nxt]
       /\ log' = Event("sweep", s, "gs", IF claimed THEN "claimed" ELSE "refused", id,
                       SweepSent(nxt))
    /\ UNCHANGED <<clients, upcoming, broadcasts, platform, dbUp, now, intk, gsTask,
                   ghlTask, sync, budget>>

\* retry_google_sheets_webhook: ok true, ok false with skipped true, no ok flag and a
\* body that is no JSON count; ok false without skipped and an unusable body do not
SweepSheetSuccess(res) == res.ok2xx /\ res.body \in {"nonjson", "ok", "skipped", "nook"}

\* the spreadsheet webhook's answer and the write of the outcome; when that write
\* fails, the exception handler writes the failure
SweepGSRecv(s, res) ==
    /\ sw[s].pc = "gs_wait"
    /\ LET me == sw[s]
           id == me.cur.id
           rc == me.cur.d.gsRetry
           ok == SweepSheetSuccess(res)
           nxt == IF dbUp \/ res.body = "timeout" THEN NextRegistration(me)
                  ELSE [me EXCEPT !.pc = "gs_exc"] IN
       /\ store' = IF ~dbUp THEN store
                   ELSE IF ok THEN [store EXCEPT ![id] = RecordSuccess(@, rc)]
                   ELSE [store EXCEPT ![id] = RecordFailure(@, rc)]
       /\ sw' = [sw EXCEPT ![s] = nxt]
       /\ log' = Event("sweep", s, "gs", IF ok THEN "ok" ELSE "fail", id, "")
    /\ UNCHANGED <<clients, upcoming, broadcasts, platform, dbUp, now, intk, gsTask,
                   ghlTask, sync, budget>>

\* a handler that lets the store error end the job
SweepGSExcAborts(s) ==
    /\ sw[s].pc = "gs_exc"
    /\ LET me == sw[s]
           id == me.cur.id IN
       /\ store' = IF dbUp THEN [store EXCEPT ![id] = RecordFailure(@, me.cur.d.gsRetry)]
                   ELSE store
       /\ sw' = [sw EXCEPT ![s] = SweepDone(me)]
       /\ log' = Event("sweep", s, "gs", "handler", id, "")
    /\ UNCHANGED <<clients, upcoming, broadcasts, platform, dbUp, now, intk, gsTask,
                   ghlTask, sync, budget>>

\* "Reset in-progress flag on exception": the handler's write after a store error
SweepGSExc(s) ==
    /\ sw[s].pc = "gs_exc"
    /\ LET me == sw[s]
           id == me.cur.id IN
       /\ store' = IF dbUp THEN [store EXCEPT ![id] = RecordFailure(@, me.cur.d.gsRetry)]
                   ELSE store
       /\ sw' = [sw EXCEPT ![s] = NextRegistration(me)]
       /\ log' = Event("sweep", s, "gs", "handler", id, "")
    /\ UNCHANGED <<clients, upcoming, broadcasts, platform, dbUp, now, intk, gsTask,
                   ghlTask, sync, budget>>

(***************************************************************************)
(* Broadcast synchronisation and the activity gate.                        *)
(***************************************************************************)
\* the date of the tenants' broadcast on the model's clock, in minutes
BroadcastDate == 600

\* process_broadcast_for_storage: the record of collection broadcasts
ProcessBroadcast(b) ==
    [present |-> TRUE, id |-> b.id, has_ended |-> b.has_ended, cancelled |-> b.cancelled,
     date |-> b.date]

NoBroadcast ==
    [present |-> FALSE, id |-> NoneV, has_ended |-> FALSE, cancelled |-> FALSE, date |-> 0]

\* get_next_immediate_upcoming_broadcast: not ended, not cancelled and in the future
NextUpcoming(b) ==
    IF ~b.has_ended /\ ~b.cancelled /\ b.date # 0 /\ b.date > now THEN b.id ELSE NoneV

\* sync_client_webinars, first part: the broadcasts fetched from the platform are
\* upserted into collection broadcasts and the next upcoming one is chosen
SyncStore(t) ==
    /\ sync[t].pc = "idle"
    /\ budget.syncs > 0
    /\ dbUp
    /\ clients[t].status = "active"
    /\ clients[t].key
    /\ broadcasts' = [broadcasts EXCEPT ![t] = ProcessBroadcast(platform[t])]
    /\ sync' = [sync EXCEPT ![t] = [pc |-> "upcoming", next |-> NextUpcoming(platform[t])]]
    /\ budget' = [budget EXCEPT !.syncs = @ - 1]
    /\ log' = Event("sync", 0, "", "broadcasts", 0, "")
    /\ UNCHANGED <<clients, upcoming, platform, store, dbUp, now, intk, gsTask, ghlTask, sw>>

\* sync_client_webinars, second part: the upsert of the client's upcoming-broadcast
\* document (a null document when there is no upcoming broadcast)
SyncUpcoming(t) ==
    /\ sync[t].pc = "upcoming"
    /\ upcoming' = IF dbUp THEN [upcoming EXCEPT ![t] = sync[t].next] ELSE upcoming
    /\ sync' = [sync EXCEPT ![t] = [pc |-> "idle", next |-> NoneV]]
    /\ log' = Event("sync", 0, "", "upcoming", 0, "")
    /\ UNCHANGED <<clients, broadcasts, platform, store, dbUp, now, intk, gsTask, ghlTask,
                   sw, budget>>

\* is_broadcast_still_active: the broadcast record of the client is looked up with
\* str(broadcast_id); only without such a record the upcoming-broadcast document is read
IsBroadcastStillActive(broadcast_id, client_id) ==
    IF client_id = "" THEN FALSE
    ELSE IF ~dbUp THEN TRUE
    ELSE IF client_id \in Tenants /\ broadcasts[client_id].present
              /\ broadcasts[client_id].id = PyStr(broadcast_id)
    THEN LET rec == broadcasts[client_id] IN
         IF rec.has_ended \/ rec.cancelled THEN FALSE
         ELSE IF rec.date # 0 /\ now > rec.date + GraceMinutes THEN FALSE
         ELSE TRUE
    ELSE IF client_id \in Tenants /\ PyStr(upcoming[client_id]) = PyStr(broadcast_id) THEN TRUE
    ELSE TRUE

(***************************************************************************)
(* The environment: the platform, the administration, the store, the clock.*)
(***************************************************************************)
\* the platform ends or cancels a tenant's broadcast
PlatformCloses(t, how) ==
    /\ budget.closes > 0
    /\ ~platform[t].has_ended /\ ~platform[t].cancelled
    /\ platform' = [platform EXCEPT ![t] = IF how = "ended" THEN [@ EXCEPT !.has_ended = TRUE]
                                           ELSE [@ EXCEPT !.cancelled = TRUE]]
    /\ budget' = [budget EXCEPT !.closes = @ - 1]
    /\ log' = Event("platform", 0, "", how, 0, "")
    /\ UNCHANGED <<clients, upcoming, broadcasts, store, dbUp, now, intk, gsTask, ghlTask,
                   sw, sync>>

\* the administration changes a client's lifecycle status
AdminSetStatus(t, st) ==
    /\ budget.admin > 0
    /\ clients[t].status # st
    /\ clients' = [clients EXCEPT ![t].status = st]
    /\ budget' = [budget EXCEPT !.admin = @ - 1]
    /\ log' = Event("admin", 0, "", st, 0, "")
    /\ UNCHANGED <<upcoming, broadcasts, platform, store, dbUp, now, intk, gsTask, ghlTask,
                   sw, sync>>

\* the store stops answering
StoreFails ==
    /\ dbUp
    /\ budget.outages > 0
    /\ dbUp' = FALSE
    /\ budget' = [budget EXCEPT !.outages = @ - 1]
    /\ log' = Event("store", 0, "", "down", 0, "")
    /\ UNCHANGED <<clients, upcoming, broadcasts, platform, store, now, intk, gsTask,
                   ghlTask, sw, sync>>

\* the store answers again
StoreRecovers ==
    /\ ~dbUp
    /\ dbUp' = TRUE
    /\ log' = Event("store", 0, "", "up", 0, "")
    /\ UNCHANGED <<clients, upcoming, broadcasts, platform, store, now, intk, gsTask,
                   ghlTask, sw, sync, budget>>

\* a minute passes
Tick ==
    /\ budget.ticks > 0
    /\ now' = now + 1
    /\ budget' = [budget EXCEPT !.ticks = @ - 1]
    /\ log' = Event("clock", 0, "", "tick", 0, "")
    /\ UNCHANGED <<clients, upcoming, broadcasts, platform, store, dbUp, intk, gsTask,
                   ghlTask, sw, sync>>

\* the retry times stored in the future
DueTimes == {n \in {store[i].gsNext : i \in 1..Len(store)} : n > now}

\* time passes up to the next stored retry time
TickToDue ==
    /\ DueTimes # {}
    /\ now' = CHOOSE n \in DueTimes : \A m \in DueTimes : n <= m
    /\ log' = Event("clock", 0, "", "due", 0, "")
    /\ UNCHANGED <<clients, upcoming, broadcasts, platform, store, dbUp, intk, gsTask,
                   ghlTask, sw, sync, budget>>

(***************************************************************************)
(* Initial states.  The clients are registered, the first synchronisation  *)
(* has stored every client's broadcast; the store holds no registration or *)
(* registrations as earlier requests and sweeps leave them.                *)
(***************************************************************************)
FullClient == [status |-> "active", key |-> TRUE, ghl |-> TRUE, gs |-> TRUE]
AllActive == [t \in Tenants |-> FullClient]

\* the platform serves its ids as JSON numbers or as JSON strings
PlatformIds == {IntV(1), StrV(1)}

NoBudget ==
    [sweeps |-> MaxSweeps, admin |-> 0, outages |-> 0, syncs |-> 0, ticks |-> 0, closes |-> 0,
     history |-> FALSE]

\* the time of the retry after n failed retries of a registration stored at time 0
RECURSIVE DueAfter(_)
DueAfter(n) == IF n = 0 THEN 0 ELSE DueAfter(n - 1) + BackoffMinutes(n - 1)

\* the document of a registration of tenant t as the intake inserts it when no channel
\* succeeds, after n failed retries of the spreadsheet channel
FailedDoc(t, n) ==
    [NewDoc(InitReg(t, "a", IntV(1))) EXCEPT !.gsRetry = n, !.gsNext = DueAfter(n)]

\* the number of a broadcast of the tenants that is not their upcoming one
StaleBroadcast == 2

\* the document of a registration of tenant t for that broadcast, no channel delivered
StaleDoc(t) == NewDoc(InitReg(t, "a", IntV(StaleBroadcast)))

\* that document once the sweep has marked the spreadsheet channel exhausted and has
\* delivered the other two channels
ExhaustedDoc(t) ==
    [FailedDoc(t, RetryCap) EXCEPT !.gsFinal = TRUE, !.wasFinal = TRUE, !.wgSent = TRUE,
                                   !.wgId = 1, !.ghlSent = TRUE]

InitWith(cl, pid, st, t0, bud) ==
    /\ clients = cl
    /\ platform = [t \in Tenants |->
                     [id |-> pid, has_ended |-> FALSE, cancelled |-> FALSE,
                      date |-> BroadcastDate]]
    /\ broadcasts = [t \in Tenants |-> ProcessBroadcast(platform[t])]
    /\ upcoming = [t \in Tenants |-> platform[t].id]
    /\ store = st
    /\ dbUp = TRUE
    /\ now = t0
    /\ intk = [r \in Reqs |-> IdleIntake]
    /\ gsTask = [r \in Reqs |-> "none"]
    /\ ghlTask = [r \in Reqs |-> "none"]
    /\ sw = [s \in Sweepers |-> IdleSweep]
    /\ sync = [t \in Tenants |-> [pc |-> "idle", next |-> NoneV]]
    /\ log = NoEvent
    /\ budget = bud

FullBudget ==
    [sweeps |-> MaxSweeps, admin |-> MaxAdmin, outages |-> MaxOutages, syncs |-> MaxSyncs,
     ticks |-> MaxNow, closes |-> MaxCloses, history |-> TRUE]

Init == \E pid \in PlatformIds : InitWith(AllActive, pid, <<>>, 0, FullBudget)

\* the steps of the requests rs, submitted with tenant keys and broadcast ids of keys,
\* bs, and of their spreadsheet tasks
IntakeRequestNext(rs, keys, bs) ==
    \/ \E r \in rs, cid \in keys, e \in Emails, b \in bs : IntakeStart(r, cid, e, b)
    \/ \E r \in rs : IntakeLookup(r)
    \/ \E r \in rs : IntakeWrite(r)
    \/ \E r \in rs, res \in WGResponses : IntakeWGRecv(r, res)
    \/ \E r \in rs, sub \in SubResponses : IntakeSubRecv(r, sub)
    \/ \E r \in rs : IntakeWGUpdate(r)
    \/ \E r \in rs, res \in GSResponses : IntakeGSRecv(r, res)

\* with the step of their background CRM tasks
IntakeNext(rs, keys, bs) ==
    \/ IntakeRequestNext(rs, keys, bs)
    \/ \E r \in rs, ok \in BOOLEAN : IntakeGHLRecv(r, ok)

\* the steps of the sweep tasks ss
SweepNext(ss) ==
    \/ \E s \in ss : SweepStart(s)
    \/ \E s \in ss : SweepQuery(s)
    \/ \E s \in ss : SweepResolve(s)
    \/ \E s \in ss, res \in WGResponses : SweepWGRecv(s, res)
    \/ \E s \in ss, ok \in BOOLEAN : SweepGHLRecv(s, ok)
    \/ \E s \in ss : SweepGSExhausted(s)
    \/ \E s \in ss : SweepGSClaim(s)
    \/ \E s \in ss, res \in GSResponses : SweepGSRecv(s, res)

\* the step of the sweep that only a store error leads to
SweepErrorNext(ss) == \E s \in ss : SweepGSExc(s)

\* the lifecycle status of a client
Statuses == {"active", "inactive", "suspended"}

EnvNext ==
    \/ \E t \in Tenants : SyncStore(t)
    \/ \E t \in Tenants : SyncUpcoming(t)
    \/ \E t \in Tenants, how \in {"ended", "cancelled"} : PlatformCloses(t, how)
    \/ \E t \in Tenants, st \in Statuses : AdminSetStatus(t, st)
    \/ StoreFails
    \/ StoreRecovers
    \/ Tick
    \/ TickToDue

Next ==
    \/ IntakeNext(Reqs, TenantKeys, SubmittedBroadcasts)
    \/ SweepNext(Sweepers)
    \/ SweepErrorNext(Sweepers)
    \/ EnvNext

Spec == Init /\ [][Next]_vars

(***************************************************************************)
(* Specifications of parts of the system, with the same actions.           *)
(***************************************************************************)
\* the intake alone: two requests, tenant t2 not active, store outages
IntakeInit ==
    InitWith([AllActive EXCEPT !["t2"].status = "inactive"], IntV(1), <<>>, 0,
             [NoBudget EXCEPT !.outages = MaxOutages])
IntakeOnly ==
    IntakeNext(Reqs, TenantKeys, {IntV(1), NoneV}) \/ StoreFails \/ StoreRecovers
IntakeSpec == IntakeInit /\ [][IntakeOnly]_vars

\* the scheduler's job alone over a failed registration of each tenant, while the
\* administration changes the clients' status and the retry times come
SweepInit ==
    InitWith(AllActive, IntV(1), <<FailedDoc("t1", RetryCap - 1), FailedDoc("t2", 0)>>,
             DueAfter(RetryCap - 1), [NoBudget EXCEPT !.admin = MaxAdmin])
SweepOnly ==
    \/ SweepNext({0})
    \/ \E t \in Tenants, st \in Statuses : AdminSetStatus(t, st)
    \/ TickToDue
SweepSpec == SweepInit /\ [][SweepOnly]_vars

\* the scheduler's job and a run-now task over one failed registration
RaceInit ==
    \E n \in {0, RetryCap - 1} :
        InitWith(AllActive, IntV(1), <<FailedDoc("t1", n)>>, DueAfter(n), NoBudget)
RaceOnly == SweepNext(Sweepers) \/ TickToDue
RaceSpec == RaceInit /\ [][RaceOnly]_vars

\* one request of either tenant and the scheduler's job, with a registration of tenant
\* t2 in the store whose spreadsheet channel has failed as often as the cap allows;
\* tenant t1 has no CRM webhook
IsolationInit ==
    InitWith([AllActive EXCEPT !["t1"].ghl = FALSE], IntV(1), <<FailedDoc("t2", RetryCap)>>,
             DueAfter(RetryCap), NoBudget)
IsolationOnly == IntakeNext({1}, Tenants, {IntV(1)}) \/ SweepNext({0})
IsolationSpec == IsolationInit /\ [][IsolationOnly]_vars

\* a registration whose spreadsheet channel has failed as often as the cap allows, the
\* scheduler's job, and one more submission of that registration
ResubmitInit ==
    InitWith(AllActive, IntV(1), <<FailedDoc("t1", RetryCap)>>, DueAfter(RetryCap), NoBudget)
ResubmitOnly == IntakeNext({1}, {"t1"}, {IntV(1)}) \/ SweepNext({0}) \/ TickToDue
ResubmitSpec == ResubmitInit /\ [][ResubmitOnly]_vars

\* the scheduler's job, the synchronisation and the platform ending its broadcasts
GateInit ==
    \E pid \in PlatformIds, n \in {0, RetryCap} :
        InitWith(AllActive, pid, <<FailedDoc("t1", n)>>, DueAfter(n),
                 [NoBudget EXCEPT !.syncs = MaxSyncs, !.closes = MaxCloses, !.ticks = MaxNow])
GateOnly ==
    \/ SweepNext({0})
    \/ \E t \in Tenants : SyncStore(t)
    \/ \E t \in Tenants : SyncUpcoming(t)
    \/ \E t \in Tenants, how \in {"ended", "cancelled"} : PlatformCloses(t, how)
    \/ Tick
GateSpec == GateInit /\ [][GateOnly]_vars

\* the scheduler's job, the synchronisation and the platform ending a broadcast, over a
\* registration of each tenant for its upcoming broadcast and one of tenant t1 for
\* another broadcast
StaleInit ==
    InitWith(AllActive, IntV(1),
             <<FailedDoc("t1", RetryCap), StaleDoc("t1"), FailedDoc("t2", 0)>>,
             DueAfter(RetryCap), [NoBudget EXCEPT !.syncs = MaxSyncs, !.closes = MaxCloses])
StaleOnly ==
    \/ SweepNext({0})
    \/ \E t \in Tenants : SyncStore(t)
    \/ \E t \in Tenants : SyncUpcoming(t)
    \/ \E t \in Tenants, how \in {"ended", "cancelled"} : PlatformCloses(t, how)
StaleSpec == StaleInit /\ [][StaleOnly]_vars

\* the scheduler's job and a run-now task over one registration no channel of which was
\* delivered, with the history of the failed CRM retries kept
CrmInit ==
    InitWith(AllActive, IntV(1), <<FailedDoc("t1", RetryCap - 1)>>, DueAfter(RetryCap - 1),
             [NoBudget EXCEPT !.history = TRUE])
CrmOnly == SweepNext(Sweepers) \/ TickToDue
CrmSpec == CrmInit /\ [][CrmOnly]_vars

\* the document of a registration of tenant t whose platform channel was delivered: the
\* platform-assigned id and the links are stored (as the sweep's retry or an intake
\* whose 201 body had no broadcast object leaves it)
DeliveredDoc(t) ==
    [NewDoc(InitReg(t, "a", IntV(1))) EXCEPT !.wgId = 1, !.watchLink = 1, !.confLink = 1,
                                             !.wgSent = TRUE]

\* one more submission of a registration whose platform channel was delivered, with
\* store outages
DeliveredInit ==
    InitWith(AllActive, IntV(1), <<DeliveredDoc("t1")>>, 0,
             [NoBudget EXCEPT !.outages = MaxOutages])
DeliveredOnly == IntakeNext({1}, {"t1"}, {IntV(1)}) \/ StoreFails \/ StoreRecovers
DeliveredSpec == DeliveredInit /\ [][DeliveredOnly]_vars

\* tenant t1 has no CRM webhook and tenant t2 has no platform credentials; one request
\* of either tenant, with or without a broadcast id, and the scheduler's job over a
\* failed registration of each tenant, t2's with as many failed spreadsheet retries as
\* the cap allows
OptOutInit ==
    InitWith([AllActive EXCEPT !["t1"].ghl = FALSE, !["t2"].key = FALSE], IntV(1),
             <<FailedDoc("t1", 0), FailedDoc("t2", RetryCap)>>, DueAfter(RetryCap), NoBudget)
OptOutOnly == IntakeNext({1}, Tenants, {IntV(1), NoneV}) \/ SweepNext({0})
OptOutSpec == OptOutInit /\ [][OptOutOnly]_vars

\* the spreadsheet answers the intake classifies as a success
GSSuccesses == {res \in GSResponses : IntakeSheetSuccess(res)}

\* submissions of tenant t1 to an empty store that is always available, every
\* spreadsheet answer a success
SheetOkInit == InitWith(AllActive, IntV(1), <<>>, 0, NoBudget)
SheetOkOnly ==
    \/ \E r \in Reqs, e \in Emails : IntakeStart(r, "t1", e, IntV(1))
    \/ \E r \in Reqs : IntakeLookup(r)
    \/ \E r \in Reqs : IntakeWrite(r)
    \/ \E r \in Reqs, res \in WGResponses : IntakeWGRecv(r, res)
    \/ \E r \in Reqs, sub \in SubResponses : IntakeSubRecv(r, sub)
    \/ \E r \in Reqs : IntakeWGUpdate(r)
    \/ \E r \in Reqs, res \in GSSuccesses : IntakeGSRecv(r, res)
    \/ \E r \in Reqs, ok \in BOOLEAN : IntakeGHLRecv(r, ok)
SheetOkSpec == SheetOkInit /\ [][SheetOkOnly]_vars

\* one execution of the scheduler's job over two registrations of tenant t1 (one never
\* retried, one with as many failed spreadsheet retries as the cap allows) and one of
\* tenant t2, with store outages; the job's task takes every step it can take (each
\* request of the job has a timeout)
FaultInit ==
    InitWith(AllActive, IntV(1),
             <<[FailedDoc("t1", 0) EXCEPT !.email = "b"], FailedDoc("t1", RetryCap),
               FailedDoc("t2", 0)>>,
             DueAfter(RetryCap), [NoBudget EXCEPT !.sweeps = 1, !.outages = MaxOutages])
FaultOnly == SweepNext({0}) \/ SweepErrorNext({0}) \/ StoreFails \/ StoreRecovers
FaultSpec ==
    FaultInit /\ [][FaultOnly]_vars /\ WF_vars(SweepNext({0}) \/ SweepErrorNext({0}))

\* the document of a registration of tenant t that was submitted without a broadcast id,
\* no channel delivered
UnknownDoc(t) == NewDoc(InitReg(t, "a", NoneV))

\* the submitted values that stand for no broadcast: null, "" and "not_available"
UnknownBroadcasts == {NoneV, StrV(EmptyStr), StrV(NotAvailable)}

\* one submission of tenant t1 with a broadcast id or with one of the values that stand
\* for no broadcast, and one execution of the scheduler's job, over a registration for
\* the tenant's broadcast and one without a broadcast id
UnknownInit ==
    InitWith(AllActive, IntV(1), <<FailedDoc("t1", RetryCap), UnknownDoc("t1")>>,
             DueAfter(RetryCap), [NoBudget EXCEPT !.sweeps = 1])
UnknownOnly == IntakeNext({1}, {"t1"}, {IntV(1)} \cup UnknownBroadcasts) \/ SweepNext({0})
UnknownSpec == UnknownInit /\ [][UnknownOnly]_vars

\* the first request of a registration (whose CRM task sends nothing, see
\* GHLTaskStart) and the scheduler's job, which fires for ever; every task that can take a
\* step takes it in the end, the retry times come, and a downstream that is asked again
\* and again accepts in the end
LiveInit == InitWith(AllActive, IntV(1), <<>>, 0, [NoBudget EXCEPT !.sweeps = Unbounded])
LiveOnly == IntakeRequestNext({1}, {"t1"}, {IntV(1)}) \/ SweepNext({0}) \/ TickToDue
Accepted == [status |-> 201, watch |-> 1, hasB |-> TRUE, dup |-> FALSE]
Stored == [ok2xx |-> TRUE, body |-> "ok"]
LiveFairness ==
    /\ WF_vars(IntakeRequestNext({1}, {"t1"}, {IntV(1)}))
    /\ WF_vars(SweepStart(0))
    /\ WF_vars(SweepQuery(0))
    /\ WF_vars(SweepResolve(0))
    /\ WF_vars(SweepGSExhausted(0))
    /\ WF_vars(SweepGSClaim(0))
    /\ WF_vars(TickToDue)
    /\ SF_vars(SweepWGRecv(0, Accepted))
    /\ SF_vars(SweepGHLRecv(0, TRUE))
    /\ SF_vars(SweepGSRecv(0, Stored))
LiveSpec == LiveInit /\ [][LiveOnly]_vars /\ LiveFairness

(***************************************************************************)
(* Properties.                                                             *)
(***************************************************************************)
\* the dispatches in flight: the task, the registration's identity and the channel
SweepInFlight ==
    {[who |-> "sweep", n |-> s, ident |-> IdentOf(sw[s].cur.d), ch |-> SweepSent(sw[s])] :
        s \in {x \in Sweepers : SweepSent(sw[x]) # ""}}
IntakeIdent(r) == <<intk[r].cid, intk[r].email, BroadcastNum(intk[r].b)>>
IntakeInFlight ==
    {[who |-> "intake", n |-> r, ident |-> IntakeIdent(r), ch |-> "wg"] :
        r \in {x \in Reqs : intk[x].pc = "wg_wait"}}
    \cup {[who |-> "intake", n |-> r, ident |-> IntakeIdent(r), ch |-> "gs"] :
        r \in {x \in Reqs : gsTask[x] = "inflight"}}
    \cup {[who |-> "intake", n |-> r, ident |-> IntakeIdent(r), ch |-> "ghl"] :
        r \in {x \in Reqs : ghlTask[x] = "inflight"}}
InFlight == SweepInFlight \cup IntakeInFlight

\* C1: per-channel exclusivity: in every reachable state at most one dispatch of a
\* given channel for a given registration is in flight
C1_AtMostOneInFlight ==
    \A x, y \in InFlight : (x.ident = y.ident /\ x.ch = y.ch) => x = y

\* C2: claim exclusivity: of the sweep executions that claim the spreadsheet channel of
\* one registration before an outcome is recorded, only one holds the claim (has been
\* let through to dispatch)
C2_OneClaimHolder ==
    \A s1, s2 \in Sweepers :
        (sw[s1].pc = "gs_wait" /\ sw[s2].pc = "gs_wait" /\ sw[s1].cur.id = sw[s2].cur.id)
            => s1 = s2

\* the awaits of the sweep between the resolution of a registration's tenant and the
\* end of that registration's retries
Processing(me) == me.pc \in {"wg_wait", "ghl_wait", "gs_exh", "gs_claim", "gs_wait", "gs_exc"}

\* the documents a step writes
Written == {i \in 1..Len(store) : store'[i] # store[i]}

\* C7: when the sweep resolves the configuration of a registration's tenant and that
\* tenant is not active, the sweep leaves the registration: it sends nothing and writes
\* nothing; and the sweep writes and sends for no other registration than the one
\* whose tenant it has resolved
C7_SweepSkipsNonActive ==
    [][\A s \in Sweepers : sw'[s] # sw[s] =>
          /\ (sw[s].pc = "resolve"
                /\ clients[Head(sw[s].queue).d.client_id].status # "active")
               => (~Processing(sw'[s]) /\ store' = store /\ SweepSent(sw'[s]) = "")
          /\ (sw[s].pc = "resolve") => store' = store
          /\ (sw[s].pc # "resolve" /\ ~Processing(sw[s]))
               => (store' = store /\ SweepSent(sw'[s]) = "")
          /\ Processing(sw[s])
               => (Written \subseteq {sw[s].cur.id}
                     /\ (SweepSent(sw'[s]) # "" => sw'[s].cur = sw[s].cur))]_vars

\* C7 witness: the sweep has just left a registration of a tenant that is not active
C7_Witness ==
    /\ log.who = "sweep" /\ log.ev = "noclient"
    /\ clients[store[log.doc].client_id].status # "active"
    /\ ~store[log.doc].gsSent

\* the retry count the store holds for a channel of a document: the documents have one
\* for the spreadsheet channel only, and a missing field reads 0
ChannelRetryCount(d, ch) == IF ch = "gs" THEN d.gsRetry ELSE 0

\* C8: backoff monotonicity: every failed dispatch of a channel of a stored registration
\* raises the retry count stored for that channel by one, up to the cap
C8_FailureCounts ==
    [][(log'.ev = "fail" /\ log'.doc # 0) =>
          ChannelRetryCount(store'[log'.doc], log'.ch) =
              IF ChannelRetryCount(store[log'.doc], log'.ch) < RetryCap
              THEN ChannelRetryCount(store[log'.doc], log'.ch) + 1
              ELSE RetryCap]_vars

\* C4: a registration submitted again while no channel of the stored record of its
\* identity has resolved never becomes a second stored record of that identity
C4_NoSecondRecord ==
    \A r \in Reqs :
        (intk[r].early /\ intk[r].existing = 0 /\ intk[r].doc_id # 0) =>
            \A i \in 1..Len(store) :
                i < intk[r].doc_id => IdentOf(store[i]) # IdentOf(store[intk[r].doc_id])

\* a tenant key that is absent, unknown or of a client that is not active
NotResolvable(cid) == cid = "" \/ cid \notin Tenants \/ clients[cid].status # "active"

\* C6: a request whose tenant key is absent, unknown or not active ends with status 400
\* in the step that resolves the tenant, with the store unchanged and no dispatch
\* started, and does nothing afterwards
C6_FailsClosed ==
    [][\A r \in Reqs :
          /\ (intk[r].pc = "idle" /\ intk'[r].pc # "idle" /\ NotResolvable(intk'[r].cid))
               => /\ intk'[r].pc = "done" /\ intk'[r].resp.code = 400
                  /\ store' = store
                  /\ gsTask'[r] = "none" /\ ghlTask'[r] = "none"
                  /\ log'.sent = ""
          /\ intk[r].resp.code = 400
               => (intk'[r] = intk[r] /\ gsTask'[r] = "none" /\ ghlTask'[r] = "none")]_vars

\* C6 witness: a request of the tenant that is not active has been rejected while the
\* store holds a registration
C6_Witness ==
    \E r \in Reqs : intk[r].resp.code = 400 /\ intk[r].cid = "t2" /\ Len(store) > 0

\* the configuration that belongs to tenant t: its credentials and its webhook URLs
OwnConfig(cfg, t) ==
    /\ cfg.ok /\ cfg.client_id = t
    /\ cfg.key = clients[t].key /\ cfg.ghl = clients[t].ghl /\ cfg.gs = clients[t].gs

\* C5: tenant isolation: a request that has passed the tenant resolution works with the
\* configuration of the tenant it was submitted for, with registration data of that
\* tenant and on a document of that tenant; a sweep that retries a registration works
\* with the configuration of the registration's tenant and on that registration's
\* document
C5_TenantIsolation ==
    /\ \A r \in Reqs :
          (intk[r].pc # "idle" /\ intk[r].resp.code # 400) =>
              /\ OwnConfig(intk[r].cfg, intk[r].cid)
              /\ intk[r].reg.client_id = intk[r].cid
              /\ intk[r].doc_id # 0 => store[intk[r].doc_id].client_id = intk[r].cid
              /\ intk[r].existing # 0 => store[intk[r].existing].client_id = intk[r].cid
    /\ \A s \in Sweepers :
          Processing(sw[s]) =>
              /\ OwnConfig(sw[s].cfg, sw[s].cur.d.client_id)
              /\ store[sw[s].cur.id].client_id = sw[s].cur.d.client_id

\* C5 witness: a request of tenant t1 waits for the platform while the sweep waits for
\* an answer for the registration of tenant t2
C5_Witness ==
    /\ intk[1].pc = "wg_wait" /\ intk[1].cid = "t1"
    /\ SweepSent(sw[0]) # "" /\ sw[0].cur.d.client_id = "t2"

\* C9: exhausted is terminal: the sweep never gets the claim of (and so never
\* dispatches) the spreadsheet channel of a registration that was marked exhausted
\* before
C9_ExhaustedNeverClaimed ==
    [][\A s \in Sweepers :
          (sw[s].pc = "gs_claim" /\ sw'[s].pc = "gs_wait") =>
              ~store[sw[s].cur.id].wasFinal]_vars

\* the registrations the query step of sweep task s adds to its queue
NewlySelected(s) ==
    {sw'[s].queue[k].d : k \in (Len(sw[s].queue) + 1)..Len(sw'[s].queue)}

\* C10: broadcast gating: the sweep selects no registration, and sends no request for a
\* registration, whose broadcast the activity gate reports inactive at that moment
C10_GateRespected ==
    [][\A s \in Sweepers : sw'[s] # sw[s] =>
          /\ sw[s].pc = "query" =>
                \A d \in NewlySelected(s) : IsBroadcastStillActive(d.bcast, d.client_id)
          /\ SweepSent(sw'[s]) # "" =>
                IsBroadcastStillActive(sw'[s].cur.d.bcast, sw'[s].cur.d.client_id)]_vars

\* every channel of document i is sent or exhausted (tenant t1 has all three configured)
Settled(i) ==
    /\ i <= Len(store)
    /\ store[i].wgSent /\ store[i].ghlSent /\ (store[i].gsSent \/ store[i].gsFinal)

\* C3: eventual delivery: the registration the store holds for the tenant's active
\* broadcast reaches a state where each of its channels is sent or exhausted
C3_EventuallySettled == (Len(store) >= 1) ~> Settled(1)

\* the write of the request's registration failed: the lookup had succeeded (a failed
\* lookup skips the write, finds nothing and leaves registration_data without _id)
WriteFailed(me) == ~me.db_available /\ (me.existing # 0 \/ me.reg.hasId)

\* C11: when the store write of an intake fails, the platform dispatch is made next if
\* the tenant has it configured, the spreadsheet dispatch has been made if the tenant
\* has a spreadsheet URL, and the request ends with a success response and with the CRM
\* dispatch made if the tenant has a CRM URL
C11_WriteFailureStillDispatches ==
    [][\A r \in Reqs : intk'[r] # intk[r] =>
          /\ (intk[r].pc = "write" /\ WriteFailed(intk'[r]))
               => /\ PlatformConfigured(intk[r]) => (intk'[r].pc = "wg_wait" /\ log'.sent = "wg")
                  /\ intk[r].cfg.gs => gsTask[r] \in {"inflight", "done"}
          /\ (intk'[r].pc = "done" /\ WriteFailed(intk'[r]))
               => /\ intk'[r].resp.code = 200
                  /\ intk[r].cfg.ghl => (ghlTask'[r] = "inflight" /\ log'.sent = "ghl")]_vars

\* C12: a request for an active tenant that is taken up while the store does not answer
\* is not rejected: it goes on to the lookup with its spreadsheet dispatch made, and
\* while the store stays down it ends with a success response that reports no
\* persisted record
C12_OutageDoesNotFail ==
    [][\A r \in Reqs : (intk'[r] # intk[r] /\ ~dbUp /\ ~NotResolvable(intk'[r].cid)) =>
          /\ intk'[r].resp.code # 400
          /\ intk[r].pc = "idle"
               => (intk'[r].pc = "lookup"
                     /\ (clients[intk'[r].cid].gs => gsTask'[r] = "inflight"))
          /\ intk'[r].pc = "done"
               => (intk'[r].resp.code = 200 /\ ~intk'[r].resp.persisted)]_vars

\* C13: when the platform answers the intake's subscription request with 201, the
\* response of the request has platform status "registered" and the watch link of the
\* platform's answer, whatever the 201 body holds and whether the store answers or not
C13_CreatedIsRegistered ==
    [][\A r \in Reqs :
          /\ \A res \in WGResponses : (res.status = 201 /\ IntakeWGRecv(r, res)) =>
                /\ Response(intk'[r]).status = "registered"
                /\ Response(intk'[r]).watchLink = res.watch
                /\ intk'[r].pc \in {"wgupd", "done"}
          /\ (intk'[r].pc = "done" /\ intk[r].pc \in {"wg_wait", "wgupd"})
                => intk'[r].resp = Response(intk[r])]_vars

\* C14: when the platform answers the intake with 422 and a duplicate message, the
\* existing subscription is looked up once and the platform is not asked again; whatever
\* the lookup gives, the registration is marked alreadyRegistered with the platform
\* channel sent, the response has platform status "registered", and the update that
\* follows stores both marks on the request's document when the store accepts it; a
\* lookup that finds nothing changes nothing else of the registration
C14_DuplicateIsRegistered ==
    [][\A r \in Reqs :
          /\ \A res \in WGResponses : (res.status = 422 /\ res.dup /\ IntakeWGRecv(r, res)) =>
                (intk'[r].pc = "sub_wait" /\ log'.sent = "sub" /\ intk'[r].reg.hasAlready)
          /\ (log'.who = "intake" /\ log'.n = r /\ log'.sent = "sub")
                => (intk[r].pc = "wg_wait" /\ ~intk[r].already_registered)
          /\ (intk[r].pc = "sub_wait" /\ intk'[r] # intk[r])
                => /\ intk'[r].pc \in {"wgupd", "done"}
                   /\ intk'[r].reg.hasAlready /\ intk'[r].reg.wgSent
                   /\ Response(intk'[r]).status = "registered"
                   /\ log'.ev = "notfound"
                        => intk'[r].reg = [intk[r].reg EXCEPT !.wgSent = TRUE]
          /\ (intk[r].already_registered /\ intk'[r] # intk[r])
                => /\ intk'[r].pc \in {"wgupd", "done"}
                   /\ intk'[r].pc = "done" => intk'[r].resp.status = "registered"
                   /\ (intk[r].pc = "wgupd" /\ log'.ev = "update")
                        => (store'[intk[r].doc_id].wgSent /\ store'[intk[r].doc_id].already)]_vars

\* C14 witness: a request has ended after a duplicate 422 whose lookup found nothing;
\* its response says "registered" without a watch link and its document has the
\* platform channel sent and is marked alreadyRegistered
C14_Witness ==
    \E r \in Reqs :
        /\ intk[r].already_registered /\ intk[r].pc = "done"
        /\ intk[r].resp.status = "registered" /\ intk[r].resp.watchLink = 0
        /\ intk[r].doc_id # 0
        /\ store[intk[r].doc_id].wgSent /\ store[intk[r].doc_id].already

\* C15: a sweep starts no CRM dispatch for a registration whose CRM retry has failed
\* twice before five minutes have passed since the second failure
C15_CrmBackoffRespected ==
    [][\A s \in Sweepers :
          (sw'[s].pc = "ghl_wait" /\ sw[s].pc # "ghl_wait" /\ store[sw'[s].cur.id].ghlFails = 2)
              => now >= store[sw'[s].cur.id].ghlFailedAt + BackoffMinutes(2)]_vars

\* C16: retry cap: a sweep starts no retry dispatch for a channel of a registration for
\* which as many failed retries as the cap allows are on record (in the stored retry
\* count of the spreadsheet channel, in the history of the CRM channel): the dispatch
\* would be one attempt more than the cap
C16_RetryCapHolds ==
    [][\A s \in Sweepers :
          /\ (sw'[s].pc = "gs_wait" /\ sw[s].pc # "gs_wait")
                => store[sw'[s].cur.id].gsRetry < RetryCap
          /\ (sw'[s].pc = "ghl_wait" /\ sw[s].pc # "ghl_wait")
                => store[sw'[s].cur.id].ghlFails < RetryCap]_vars

\* C17: backoff schedule: a step that records a failed retry of the spreadsheet channel
\* (the only channel for which failures are recorded) sets the next retry time to the
\* time of the failure plus the backoff of the retry count the store held before the
\* failure: 1, 2, 5, 10 minutes for 0, 1, 2, 3 and 30 minutes from 4 on
C17_BackoffSchedule ==
    [][\A i \in 1..Len(store) :
          (log'.who = "sweep" /\ log'.ch = "gs" /\ log'.ev \in {"fail", "handler"}
             /\ log'.doc = i /\ store'[i] # store[i])
              => store'[i].gsNext =
                    now + (CASE store[i].gsRetry = 0 -> 1 [] store[i].gsRetry = 1 -> 2
                             [] store[i].gsRetry = 2 -> 5 [] store[i].gsRetry = 3 -> 10
                             [] OTHER -> 30)]_vars

\* the registration of document d is one of the broadcast the sweep task read as the
\* upcoming one of the registration's tenant
OfReadBroadcast(me, d) ==
    me.map[d.client_id] # NoneV /\ PyStr(d.bcast) = me.map[d.client_id]

\* C18: stale-broadcast exclusion: a sweep reads the tenants' upcoming broadcast ids as
\* the store holds them when it starts; it selects, processes and dispatches only
\* registrations of the broadcast it read for their tenant, and writes only to such a
\* registration's document; of a tenant for which it read no broadcast id it selects
\* nothing and touches nothing
C18_StaleExcluded ==
    [][\A s \in Sweepers : sw'[s] # sw[s] =>
          /\ (sw[s].pc = "idle" /\ sw'[s].pc # "idle")
                => \A t \in Tenants :
                      sw'[s].map[t] = IF upcoming[t] = NoneV THEN NoneV ELSE PyStr(upcoming[t])
          /\ sw[s].pc = "query" => \A d \in NewlySelected(s) : OfReadBroadcast(sw'[s], d)
          /\ sw[s].pc # "idle" => sw'[s].map \in {sw[s].map, NoMap}
          /\ Processing(sw'[s])
                => (OfReadBroadcast(sw'[s], sw'[s].cur.d)
                      /\ OfReadBroadcast(sw'[s], store'[sw'[s].cur.id]))
          /\ Written \subseteq {sw[s].cur.id}
          /\ Written # {} => OfReadBroadcast(sw[s], store[sw[s].cur.id])]_vars

\* C18 witness: an execution of the sweep that started when tenant t2 had no upcoming
\* broadcast has ended; it has marked the spreadsheet channel of t1's registration for
\* the upcoming broadcast exhausted and has left t1's registration for the other
\* broadcast and t2's registration untouched, unresolved as they are
C18_Witness ==
    /\ sw[0].runs >= 1 /\ sw[0].pc = "idle"
    /\ upcoming["t2"] = NoneV
    /\ store[1].gsFinal
    /\ store[2] = StaleDoc("t1")
    /\ store[3] = FailedDoc("t2", 0)

\* some channel of document d is neither sent nor exhausted
HasUnresolved(d) == ~d.wgSent \/ ~d.ghlSent \/ (~d.gsSent /\ ~d.gsFinal)

\* C19: selection completeness: when a sweep queries the registrations of a tenant, every
\* stored registration of that tenant for the tenant's upcoming broadcast with a channel
\* neither sent nor exhausted is among the registrations the query adds to the sweep's
\* list
C19_SelectionComplete ==
    [][\A s \in Sweepers : (sw[s].pc = "query" /\ sw'[s] # sw[s] /\ dbUp) =>
          \A i \in 1..Len(store) :
              (/\ store[i].client_id = Head(sw[s].tq)
               /\ BroadcastNum(store[i].bcast) = BroadcastNum(upcoming[Head(sw[s].tq)])
               /\ BroadcastNum(store[i].bcast) = BroadcastNum(sw[s].map[Head(sw[s].tq)])
               /\ HasUnresolved(store[i]))
                  => store[i] \in NewlySelected(s)]_vars

\* C20: backoff-aware gating: a sweep starts a spreadsheet dispatch for a registration
\* only when the store holds no next retry time for the channel or that time has come
C20_NoDispatchBeforeDue ==
    [][\A s \in Sweepers :
          (sw'[s].pc = "gs_wait" /\ sw[s].pc # "gs_wait")
              => (store[sw'[s].cur.id].gsNext = 0 \/ now >= store[sw'[s].cur.id].gsNext)]_vars

\* C21: resolved is absorbing: a channel whose sent flag the store holds as true keeps
\* it true in every step (the intake's writes, the update after the platform's answer,
\* the writes of the sweep)
C21_SentIsAbsorbing ==
    [][\A i \in 1..Len(store) :
          /\ store[i].wgSent => store'[i].wgSent
          /\ store[i].ghlSent => store'[i].ghlSent
          /\ store[i].gsSent => store'[i].gsSent]_vars

\* the sent flag of channel ch in document d
SentFlag(d, ch) == IF ch = "wg" THEN d.wgSent ELSE IF ch = "ghl" THEN d.ghlSent ELSE d.gsSent

\* C22: a sweep starts no dispatch for a channel that the store holds as sent at the
\* moment the dispatch starts, for each of the three channels
C22_NoDispatchOfSent ==
    [][\A s \in Sweepers :
          (sw'[s] # sw[s] /\ SweepSent(sw'[s]) # "")
              => ~SentFlag(store'[sw'[s].cur.id], SweepSent(sw'[s]))]_vars

\* C23: record identity uniqueness: in every reachable state the store holds at most one
\* registration per identity: tenant, email and broadcast when the broadcast is known,
\* tenant and email when it is not
C23_OneRecordPerIdentity ==
    \A i, j \in 1..Len(store) : IdentOf(store[i]) = IdentOf(store[j]) => i = j

\* C24: re-submission preserves delivered artifacts: a watch link, a platform-assigned
\* id and a confirmation link the store holds for a registration stay non-empty through
\* every step of a re-submission of that registration, whatever the platform answers, and
\* a re-submission that has found the record and written it ends with the record marked
\* alreadyRegistered
C24_ArtifactsPreserved ==
    [][/\ \A i \in 1..Len(store) :
             /\ store[i].watchLink # 0 => store'[i].watchLink # 0
             /\ store[i].wgId # 0 => store'[i].wgId # 0
             /\ store[i].confLink # 0 => store'[i].confLink # 0
       /\ \A r \in Reqs :
             (intk'[r].pc = "done" /\ intk'[r].existing # 0 /\ intk'[r].db_available)
                 => store'[intk'[r].existing].already]_vars

\* the answers of the spreadsheet webhook that are a success: a 2xx status with a body
\* that is no JSON, has ok true, has no ok flag, or has ok false with skipped true
SheetAnswerIsSuccess(res) == res.ok2xx /\ res.body \in {"nonjson", "ok", "nook", "skipped"}

\* the answers the classification is stated for
ClassifiedSheetAnswers == {res \in GSResponses : res.body # "list"}

\* C25: the spreadsheet outcome is classified the same by the intake's task and by the
\* sweep: the answers that are a success are taken as one and the channel is marked
\* sent (when the document is known and the store answers); a 2xx body with ok false
\* and no skipped flag and every non-2xx answer are taken as a failure and the channel
\* is not marked sent
C25_SheetClassification ==
    [][\A res \in ClassifiedSheetAnswers :
          /\ \A r \in Reqs : IntakeGSRecv(r, res) =>
                IF SheetAnswerIsSuccess(res)
                THEN log'.ev = "ok"
                       /\ (intk[r].doc_id # 0 /\ dbUp) => store'[intk[r].doc_id].gsSent
                ELSE log'.ev = "fail" /\ \A i \in 1..Len(store) : store'[i].gsSent = store[i].gsSent
          /\ \A s \in Sweepers : SweepGSRecv(s, res) =>
                IF SheetAnswerIsSuccess(res)
                THEN log'.ev = "ok" /\ (dbUp => store'[sw[s].cur.id].gsSent)
                ELSE log'.ev = "fail" /\ \A i \in 1..Len(store) : store'[i].gsSent = store[i].gsSent]_vars

\* the answers of the platform that resolve the channel: 201, and 422 with a duplicate
\* message
PlatformAnswerResolves(res) == res.status = 201 \/ (res.status = 422 /\ res.dup)

\* C26: the platform outcome is classified the same by the intake and by the sweep: 201
\* and 422 with a duplicate message resolve the channel; every other answer, a 422
\* without such a message among them, is a failure that leaves the channel unresolved
C26_PlatformClassification ==
    [][\A res \in WGResponses :
          /\ \A r \in Reqs : IntakeWGRecv(r, res) =>
                /\ intk'[r].wg_success = PlatformAnswerResolves(res)
                /\ ~PlatformAnswerResolves(res) => ~intk'[r].reg.wgSent
          /\ \A s \in Sweepers : SweepWGRecv(s, res) =>
                IF PlatformAnswerResolves(res)
                THEN dbUp => store'[sw[s].cur.id].wgSent
                ELSE store'[sw[s].cur.id].wgSent = store[sw[s].cur.id].wgSent]_vars

\* C27: an unconfigured channel is skipped, not failed: neither the intake nor a sweep
\* sends a CRM request for a tenant without a CRM webhook URL, or a platform request for
\* a tenant without platform credentials or for a registration without a known broadcast
\* id; a request that skips a channel ends with a success response and its CRM task,
\* when that is what is skipped, ends at once; and a retry count is raised by the
\* recorded failure of a spreadsheet retry only
C27_UnconfiguredIsSkipped ==
    [][/\ \A r \in Reqs :
             /\ ghlTask'[r] = "inflight" => clients[intk'[r].cid].ghl
             /\ intk'[r].pc = "wg_wait"
                   => (clients[intk'[r].cid].key /\ BroadcastNum(intk'[r].b) # 0)
             /\ (intk'[r].pc = "done" /\ intk[r].pc \notin {"idle", "done"})
                   => /\ intk'[r].resp.code = 200
                      /\ ~clients[intk'[r].cid].ghl => ghlTask'[r] = "skipped"
       /\ \A s \in Sweepers :
             /\ sw'[s].pc = "ghl_wait" => clients[sw'[s].cur.d.client_id].ghl
             /\ sw'[s].pc = "wg_wait"
                   => (clients[sw'[s].cur.d.client_id].key
                         /\ BroadcastNum(sw'[s].cur.d.bcast) # 0)
       /\ \A i \in 1..Len(store) :
             store'[i].gsRetry > store[i].gsRetry
                 => (log'.who = "sweep" /\ log'.ch = "gs" /\ log'.ev \in {"fail", "handler"}
                       /\ log'.doc = i)]_vars

\* C27 witness: a request of tenant t1, which has no CRM webhook, has ended with a
\* success response and its CRM task skipped; the sweep has ended an execution in which
\* it delivered the spreadsheet channel of t1's registration and the CRM channel of
\* t2's, while the CRM channel of t1's and the platform channel of t2's, which those
\* tenants have not configured, are unsent and no retry count has been raised
C27_Witness ==
    /\ intk[1].pc = "done" /\ intk[1].cid = "t1" /\ intk[1].resp.code = 200
    /\ ghlTask[1] = "skipped"
    /\ sw[0].pc = "idle" /\ sw[0].runs >= 1
    /\ store[1].gsSent /\ ~store[1].ghlSent
    /\ store[2].gsFinal /\ store[2].ghlSent /\ ~store[2].wgSent
    /\ store[1].gsRetry = 0 /\ store[2].gsRetry = RetryCap

\* the broadcast ids the gate is asked about: the tenants' broadcast and another one, as
\* a number and as a string
GateIds == {IntV(n) : n \in BroadcastNums \cup {StaleBroadcast}}
             \cup {StrV(n) : n \in BroadcastNums \cup {StaleBroadcast}}

\* the store holds a record of broadcast b for tenant t
HasRecord(t, b) == broadcasts[t].present /\ BroadcastNum(broadcasts[t].id) = BroadcastNum(b)

\* C28: activity gate, negative rules and default: while the store answers, the gate
\* reports inactive every broadcast whose stored record is marked ended or cancelled or
\* whose date plus 24 hours has passed, and reports active a broadcast id of which the
\* store holds no record for the tenant
C28_GateNegativeRules ==
    \A t \in Tenants, b \in GateIds :
        dbUp =>
            /\ (HasRecord(t, b)
                  /\ (broadcasts[t].has_ended \/ broadcasts[t].cancelled
                        \/ (broadcasts[t].date # 0 /\ now > broadcasts[t].date + GraceMinutes)))
                 => ~IsBroadcastStillActive(b, t)
            /\ ~HasRecord(t, b) => IsBroadcastStillActive(b, t)

\* C29: activity gate, upcoming rule: while the store answers, the gate reports active
\* the broadcast id that the tenant's upcoming-broadcast document holds, whatever the
\* stored record of that broadcast says
C29_UpcomingIsActive ==
    \A t \in Tenants, b \in GateIds :
        (dbUp /\ Truthy(upcoming[t]) /\ PyStr(upcoming[t]) = PyStr(b))
            => IsBroadcastStillActive(b, t)

\* C30: broadcast-id canonicalization: a submission whose broadcast id is null, "" or
\* "not_available" gives the same registration data as one without a broadcast id; its
\* lookup finds the stored registration of its tenant and email without a broadcast id
\* and no other, its write stores a record without a broadcast id, and no platform
\* request is sent for it, by the intake or by a sweep
C30_UnknownBroadcastCanonical ==
    [][/\ \A b \in UnknownBroadcasts, t \in Tenants, e \in Emails :
             InitReg(t, e, b) = InitReg(t, e, NoneV) /\ ~InitReg(t, e, b).hasB
       /\ \A r \in Reqs :
             (intk'[r] # intk[r] /\ intk'[r].b \in UnknownBroadcasts /\ intk'[r].cfg.ok) =>
                 /\ intk'[r].pc \notin {"wg_wait", "sub_wait"} /\ log'.sent # "wg"
                 /\ intk'[r].reg.bcast = NoneV /\ ~intk'[r].reg.hasB
                 /\ (intk[r].pc = "lookup" /\ dbUp) =>
                       IF intk'[r].existing = 0
                       THEN \A i \in 1..Len(store) :
                                IdentOf(store[i]) # <<intk[r].cid, intk[r].email, 0>>
                       ELSE IdentOf(store[intk'[r].existing]) = <<intk[r].cid, intk[r].email, 0>>
                 /\ (intk[r].pc = "write" /\ log'.ev \in {"merge", "insert"}) =>
                       /\ store'[log'.doc].bcast = NoneV
                       /\ IdentOf(store'[log'.doc]) = <<intk[r].cid, intk[r].email, 0>>
                       /\ \A i \in 1..Len(store) : i # log'.doc => store'[i] = store[i]
       /\ \A s \in Sweepers :
             SweepSent(sw'[s]) = "wg" => BroadcastNum(sw'[s].cur.d.bcast) # 0]_vars

\* C30 witness: a submission with broadcast id "not_available" has ended; it found the
\* stored registration without a broadcast id and merged into it, the store holds the two
\* records it held, the sweep has ended an execution, and the platform channel of the
\* record without a broadcast id is unsent
C30_Witness ==
    /\ intk[1].pc = "done" /\ intk[1].b = StrV(NotAvailable)
    /\ intk[1].existing = 2 /\ intk[1].doc_id = 2
    /\ Len(store) = 2 /\ store[2].bcast = NoneV /\ store[2].already
    /\ ~store[2].wgSent
    /\ sw[0].pc = "idle" /\ sw[0].runs >= 1

\* C31: intake ordering of the synchronous channels: when the response of a request is
\* composed, the spreadsheet dispatch and the platform dispatch of that request have
\* completed; only its CRM dispatch can be pending
C31_ResponseAfterSyncChannels ==
    \A r \in Reqs :
        (intk[r].pc = "done" /\ intk[r].resp.code = 200)
            => (gsTask[r] # "inflight" /\ intk[r].pc \notin {"wg_wait", "sub_wait"})

\* C32: spreadsheet-first ordering: a request accepted for a tenant with a spreadsheet URL
\* has its spreadsheet dispatch initiated in the step that takes it up, with nothing
\* written to the store; so the dispatch is under way or over when the lookup and the
\* write of the registration complete, also when they fail
C32_SheetBeforeWrite ==
    [][\A r \in Reqs : intk'[r] # intk[r] =>
          /\ (intk[r].pc = "idle" /\ intk'[r].cfg.ok /\ clients[intk'[r].cid].gs)
                => (gsTask'[r] = "inflight" /\ log'.sent = "gs" /\ store' = store)
          /\ (intk[r].pc \in {"lookup", "write"} /\ clients[intk[r].cid].gs)
                => gsTask[r] \in {"inflight", "done"}
          /\ (intk'[r].doc_id # intk[r].doc_id /\ clients[intk[r].cid].gs)
                => gsTask[r] \in {"inflight", "done"}]_vars

\* C32 witness: the write of a request has failed while the store was down, for a tenant
\* with a spreadsheet URL, and the request's spreadsheet dispatch is in flight
C32_Witness ==
    \E r \in Reqs :
        /\ log.who = "intake" /\ log.n = r /\ log.ev = "writefail"
        /\ ~intk[r].db_available /\ clients[intk[r].cid].gs
        /\ gsTask[r] = "inflight"

\* C33: partial success on platform timeout: when the platform dispatch of a request
\* times out or raises, the request's spreadsheet task is left to run, the stored
\* records stay and keep a spreadsheet outcome already recorded, and the request ends
\* with a success response of platform status "pending" and with its CRM dispatch made
\* if the tenant has a CRM URL
C33_PartialSuccessOnTimeout ==
    [][\A r \in Reqs : (intk'[r] # intk[r] /\ intk'[r].reg.err) =>
          /\ gsTask'[r] = gsTask[r]
          /\ Len(store') >= Len(store)
          /\ \A i \in 1..Len(store) : store[i].gsSent => store'[i].gsSent
          /\ intk'[r].pc = "done" =>
                /\ intk'[r].resp.code = 200 /\ intk'[r].resp.status = "pending"
                /\ intk'[r].cfg.ghl => (ghlTask'[r] = "inflight" /\ log'.sent = "ghl")]_vars

\* the next retry time the store holds for a channel of a document: the documents have
\* one for the spreadsheet channel only, and a missing field reads 0
ChannelNextRetry(d, ch) == IF ch = "gs" THEN d.gsNext ELSE 0

\* C34: dispatcher failures do not cross the pipeline boundary: a request of an active
\* tenant ends with a success response whatever its downstreams answer, and every failed
\* dispatch for a stored registration, by the intake or by a sweep, leaves the channel
\* unsent in the store with its retry count raised by one and a next retry time set
C34_FailuresRecorded ==
    [][/\ \A r \in Reqs :
             (intk'[r].pc = "done" /\ intk[r].pc \notin {"idle", "done"})
                 => intk'[r].resp.code = 200
       /\ (log'.ev = "fail" /\ log'.ch \in Channels /\ log'.doc # 0 /\ dbUp) =>
             /\ ~SentFlag(store'[log'.doc], log'.ch)
             /\ ChannelRetryCount(store'[log'.doc], log'.ch)
                   = ChannelRetryCount(store[log'.doc], log'.ch) + 1
             /\ ChannelNextRetry(store'[log'.doc], log'.ch) > now]_vars


\* C35: at most one execution of the retry sweep is in progress at any time,
\* whatever the order of the scheduler's ticks and of the calls to
\* run-retry-webhooks-now
C35_OneSweepAtATime ==
    \A s1, s2 \in Sweepers : (sw[s1].pc # "idle" /\ sw[s2].pc # "idle") => s1 = s2


\* C36: a successful spreadsheet delivery of the intake of a persisted registration is
\* always recorded: once the request has been answered and its spreadsheet task has
\* ended, in a specification all of whose spreadsheet answers are successes, the record
\* the request wrote has its spreadsheet sent flag set, whatever the order in which the
\* spreadsheet's answer, the store write and the platform's answer arrived
C36_SheetSuccessRecorded ==
    \A r \in Reqs :
        (intk[r].pc = "done" /\ gsTask[r] = "done" /\ intk[r].doc_id # 0)
            => store[intk[r].doc_id].gsSent


\* C37: the response reports the platform status "registered" only if the platform
\* channel has resolved for the registration: the platform answered this request with a
\* 201 or a duplicate 422 (wg_success), or the stored record the request found has the
\* platform channel sent; otherwise the status is "pending"
C37_RegisteredOnlyIfResolved ==
    \A r \in Reqs :
        (intk[r].pc = "done" /\ intk[r].resp.code = 200
            /\ intk[r].resp.status = "registered")
            => \/ intk[r].wg_success
               \/ intk[r].existing # 0 /\ store[intk[r].existing].wgSent


\* registration i is in the batch a sweep task selected, or is the one it is processing
SweepHolds(i) ==
    \E s \in Sweepers :
        \/ sw[s].cur.id = i
        \/ \E k \in 1..Len(sw[s].queue) : sw[s].queue[k].id = i

\* C38: sweep quiescence: a registration each configured channel of which is sent or
\* exhausted is eventually no longer selected by the sweep, and stays so
C38_SweepQuiescence == <>[](Settled(1) => ~SweepHolds(1))


\* the awaits of the loop over the selected registrations
PerRegistration == {"resolve", "wg_wait", "ghl_wait", "gs_exh", "gs_claim", "gs_wait", "gs_exc"}

\* the selected registrations the loop has not taken up yet, once the step at hand is done
Remaining(me) == IF me.pc = "resolve" THEN Tail(me.queue) ELSE me.queue

\* registration i waits in the batch of a sweep task that has entered its loop
Awaits(i) ==
    \E s \in Sweepers :
        /\ sw[s].pc \in PerRegistration
        /\ \E k \in 1..Len(sw[s].queue) : sw[s].queue[k].id = i

\* the loop has just taken registration i from the batch: get_client_config was awaited
\* for it
TakenUp(i) == log.who = "sweep" /\ log.ev \in {"resolve", "noclient"} /\ log.doc = i

\* C39: sweep error isolation and termination: no step of the loop over the selected
\* registrations, whether it succeeds or meets a store or dispatcher error, drops a
\* registration from the rest of the batch or ends the job while registrations remain;
\* every registration that waits in the batch is taken up, and every execution of the
\* job ends
C39_SweepIsolatedAndTerminates ==
    /\ [][\A s \in Sweepers : (sw[s].pc \in PerRegistration /\ sw'[s] # sw[s]) =>
             /\ sw'[s].pc = "idle" => Remaining(sw[s]) = <<>>
             /\ sw'[s].pc # "idle" => sw'[s].queue = Remaining(sw[s])]_vars
    /\ \A i \in 1..3 : Awaits(i) ~> TakenUp(i)
    /\ \A s \in Sweepers : (sw[s].pc # "idle") ~> (sw[s].pc = "idle")

\* C39 witness: the job has taken up the registration of tenant t2, the last of its
\* batch, after the writes of the outcome of the spreadsheet retry of tenant t1's first
\* registration and of its exception handler failed (the in-progress flag is still set)
C39_Witness ==
    /\ sw[0].pc \in PerRegistration /\ sw[0].cur.id = 3
    /\ store[1].gsInProg /\ ~store[1].gsSent

============================================================================
